---- MODULE Spec2Model ----
(***************************************************************************)
(* Model of the M24C64 EEPROM driver (class m24c64): setup/detect, the    *)
(* direct read and write engines with their write-cycle gate, and the     *)
(* page coalescing buffer (buffered_write / buffer_flush).                 *)
(*                                                                         *)
(* Every driver function is a frame on a call stack; a frame advances one  *)
(* bus transaction (or one loop iteration) per step, so that transport    *)
(* failures, the clock and the device's acknowledgements can interleave    *)
(* exactly where the code lets them.                                       *)
(***************************************************************************)
EXTENDS Integers, Sequences, FiniteSets, TLC

(***************************************************************************)
(* Program constants                                                       *)
(***************************************************************************)
m_size_total == 8192

m_size_page == 32

\* while ((millis() - m_timestamp_write) <= 5)
SETTLE_MS == 5

EINVAL == 22

EIO == 5

\* 2^16: the range of uint16_t (the address parameter, the two header bytes)
\* and of each half of a uint32_t
UINT16 == 65536

(***************************************************************************)
(* Bounds of the model                                                     *)
(***************************************************************************)
\* transport faults (a not-acknowledged transaction, a short transfer)
MaxFaults == 1

\* address-bearing bus transactions explored inside one top-level call
MaxBursts == 36

\* bytes the transport delivers in one requestFrom at most
MaxRxBurst == 32

(***************************************************************************)
(* Builds: width of size_t and int, PAGE_WRITE_SUPPORTED, I2C_BUFFER_SIZE  *)
(***************************************************************************)
Avr == [name |-> "avr", size_bits |-> 16, page_write_supported |-> FALSE, i2c_buffer_size |-> 0]

Arm == [name |-> "arm", size_bits |-> 32, page_write_supported |-> TRUE, i2c_buffer_size |-> 256]

Small == [name |-> "small", size_bits |-> 32, page_write_supported |-> TRUE, i2c_buffer_size |-> 32]

Min(a, b) == IF a < b THEN a ELSE b

(***************************************************************************)
(* Inputs explored                                                         *)
(***************************************************************************)
\* (address, length) of a read / write / buffered_write call
Requests ==
    { <<0, 0>>, <<0, 1>>, <<0, 33>>, <<1, 2>>, <<31, 2>>, <<32, 1>>, <<8160, 32>>,
      <<8191, 10>>, <<8191, 65535>>, <<8192, 1>> }

\* (address, length) of the buffered_write that follows another one
Followers == { <<0, 33>>, <<1, 2>>, <<32, 1>> }

\* The runs explored: a build, the value of millis() when the sketch starts
\* using the driver (a uint32_t is kept as its two 16-bit halves; 0xFFFFFFFD
\* wraps after 3 ms) and the device's write cycle time in ms (a device in its
\* write cycle does not acknowledge; 6 lasts as long as the driver's wait)
Worlds ==
    { [platform |-> Avr,   boot |-> [hi |-> 0, lo |-> 0],                   t_cycle |-> 6],
      [platform |-> Arm,   boot |-> [hi |-> UINT16 - 1, lo |-> UINT16 - 3], t_cycle |-> 3],
      [platform |-> Arm,   boot |-> [hi |-> 0, lo |-> 0],                   t_cycle |-> 6],
      [platform |-> Small, boot |-> [hi |-> 0, lo |-> 0],                   t_cycle |-> 0] }

\* The calls of a sketch.  Byte k of the data of a write is Pat(seed, k).
DoSetup(i2c_address) == [op |-> "setup", address |-> i2c_address, length |-> 0, seed |-> 0]

DoDelay == [op |-> "delay", address |-> 0, length |-> 0, seed |-> 0]

DoRead(r) == [op |-> "read", address |-> r[1], length |-> r[2], seed |-> 0]

DoWrite(r, seed) == [op |-> "write", address |-> r[1], length |-> r[2], seed |-> seed]

DoBufferedWrite(r, seed) ==
    [op |-> "buffered_write", address |-> r[1], length |-> r[2], seed |-> seed]

DoFlush == [op |-> "buffer_flush", address |-> 0, length |-> 0, seed |-> 0]

DoDetect == [op |-> "detect", address |-> 0, length |-> 0, seed |-> 0]

\* the stream interface: read(), peek(), write(byte), write(buf, length),
\* seek_read(index), seek_write(index)
DoStreamRead == [op |-> "stream_read", address |-> 0, length |-> 1, seed |-> 0]

DoPeek == [op |-> "peek", address |-> 0, length |-> 1, seed |-> 0]

DoStreamWrite(seed) == [op |-> "stream_write", address |-> 0, length |-> 1, seed |-> seed]

DoStreamWriteBuf(length, seed) ==
    [op |-> "stream_write_buf", address |-> 0, length |-> length, seed |-> seed]

DoSeekRead(index) == [op |-> "seek_read", address |-> index, length |-> 0, seed |-> 0]

DoSeekWrite(index) == [op |-> "seek_write", address |-> index, length |-> 0, seed |-> 0]

\* const uint8_t i2c_address: every value setup can be given
BusAddresses == 0..255

\* The sketches explored on build p: the calls the sketch makes, in order.
\*  - a write, then a read of the same range at once or after a delay
\*  - two buffered writes and two flushes (where buffered_write only forwards
\*    to write, the case the write sketches explore, the long requests only)
\*  - a buffered write, a read of the same range, then a flush
\*  - a page written by one-byte buffered writes at consecutive addresses,
\*    then a flush
\*  - calls with a start address past the end while a byte is pending
\*  - a read and a write of no bytes at once after a write
\*  - the stream: bytes written at the write cursor, then peeked and read at
\*    the read cursor; the cursors moved to the last byte and past it; the
\*    stream used with no setup
\*  - a byte buffered, then the same address written directly and through
\*    the stream and peeked, then the flush
\*  - setup with every bus address, as the first call and after a setup that
\*    succeeded
\*  - calls made with no setup, or after a rejected setup
Sketches(p) ==
    { <<DoSetup(80), DoWrite(r, 17), DoRead(r)>> : r \in Requests }
    \cup { <<DoSetup(80), DoWrite(r, 17), DoDelay, DoRead(r)>> : r \in Requests }
    \cup { <<DoSetup(80), DoBufferedWrite(r[1], 17), DoBufferedWrite(r[2], 117), DoFlush, DoFlush>> :
             r \in IF p.page_write_supported
                   THEN Requests \X Followers
                   ELSE { <<0, 33>>, <<8191, 65535>> } \X { <<32, 1>> } }
    \cup { <<DoSetup(80), DoBufferedWrite(r, 17), DoRead(r), DoFlush>> :
             r \in IF p.page_write_supported THEN { <<0, 1>>, <<0, 33>> } ELSE { <<0, 1>> } }
    \cup { <<DoSetup(80)>> \o [k \in 1..m_size_page |-> DoBufferedWrite(<<k - 1, 1>>, 17)]
                          \o <<DoFlush>> }
    \cup { <<DoSetup(80), DoBufferedWrite(<<0, 1>>, 17), DoBufferedWrite(<<8192, 1>>, 117),
             DoRead(<<8192, 1>>), DoWrite(<<8192, 1>>, 17), DoFlush>> }
    \cup { <<DoSetup(80), DoWrite(<<0, 1>>, 17), DoRead(<<0, 0>>), DoWrite(<<0, 0>>, 17)>> }
    \cup { <<DoSetup(80), DoStreamWrite(17), DoStreamWriteBuf(2, 27), DoPeek, DoStreamRead>>,
           <<DoSetup(80), DoSeekRead(8192), DoSeekRead(8191), DoStreamRead, DoStreamRead>>,
           <<DoSetup(80), DoSeekWrite(8192), DoSeekWrite(8191), DoStreamWriteBuf(2, 27),
             DoStreamWrite(17)>>,
           <<DoStreamRead, DoPeek, DoStreamWrite(17)>> }
    \cup { <<DoSetup(80), DoBufferedWrite(<<0, 1>>, 17), DoWrite(<<0, 1>>, 117), DoStreamWrite(27),
             DoPeek, DoFlush>> }
    \cup { <<DoSetup(a)>> : a \in BusAddresses }
    \cup { <<DoSetup(b), DoSetup(a)>> : b \in {80, 87}, a \in BusAddresses }
    \cup { <<DoDetect, DoRead(<<0, 1>>), DoWrite(<<0, 1>>, 17), DoBufferedWrite(<<0, 1>>, 17),
             DoFlush>>,
           <<DoSetup(88), DoSetup(72), DoDetect, DoRead(<<0, 1>>), DoWrite(<<0, 1>>, 17),
             DoBufferedWrite(<<0, 1>>, 17), DoFlush, DoSetup(80), DoDetect>> }

\* The runs explored on a transport that may stall: the devices whose write
\* cycle lasts as long as the driver's wait, and one sketch of short calls
LiveWorlds == { w \in Worlds : w.t_cycle > SETTLE_MS }

LiveSketches(p) ==
    IF p.page_write_supported
    THEN { <<DoSetup(80), DoBufferedWrite(<<31, 2>>, 17), DoBufferedWrite(<<0, 33>>, 117),
             DoFlush>> }
    ELSE { <<DoSetup(80), DoWrite(<<1, 2>>, 17), DoDetect, DoDelay, DoRead(<<1, 2>>),
             DoBufferedWrite(<<1, 2>>, 117), DoFlush>>,
           <<DoSetup(80), DoSeekWrite(1), DoStreamWrite(17), DoStreamRead>> }

Pat(seed, k) == (seed + k) % 256

NoData == [kind |-> "none", seed |-> 0, off |-> 0]

PatData(seed, off) == [kind |-> "pat", seed |-> seed, off |-> off]

BufData == [kind |-> "buf", seed |-> 0, off |-> 0]

(***************************************************************************)
(* State                                                                   *)
(***************************************************************************)
VARIABLES
    platform,           \* the build: size_t/int width, PAGE_WRITE_SUPPORTED, I2C_BUFFER_SIZE
    device,             \* the device's write cycle (its length, what is left of it, ms) and
                        \* whether the transport may stall
    m_i2c_library,      \* "NULL" until setup succeeds
    m_i2c_address,
    m_timestamp_write,
    m_buffer,           \* uint8_t m_buffer[m_size_page]
    m_buffer_start,
    m_buffer_length,
    m_index_read,       \* the stream's read position
    m_index_write,      \* the stream's write position
    millis,             \* the value millis() returns now (uint32_t)
    eeprom,             \* device memory: the cells written so far (others hold ERASED)
    stack,              \* call stack of driver functions, innermost last
    res,                \* value returned by the function that returned last
    data_out,           \* bytes stored so far into the data buffer of read
    todo,               \* the calls the sketch has still to make
    hist                \* history of the run, read only by the properties

vars == <<platform, device, m_i2c_library, m_i2c_address, m_timestamp_write, m_buffer,
          m_buffer_start, m_buffer_length, m_index_read, m_index_write, millis, eeprom, stack,
          res, data_out, todo, hist>>

session == <<m_i2c_library, m_i2c_address>>

buffer == <<m_buffer, m_buffer_start, m_buffer_length>>

cursors == <<m_index_read, m_index_write>>

(***************************************************************************)
(* Integer arithmetic of the build                                         *)
(***************************************************************************)
\* a value of type size_t: 16 bits wide on the 16-bit build; on the 32-bit
\* builds no sum the model forms reaches 2^32, so the value is kept
SizeT(x) == IF platform.size_bits = 16 THEN x % UINT16 ELSE x

\* a size_t returned as int (int is as wide as size_t on these builds)
ToInt(x) ==
    IF platform.size_bits = 16
    THEN (IF x % UINT16 >= UINT16 \div 2 THEN (x % UINT16) - UINT16 ELSE x % UINT16)
    ELSE x

\* a value passed as the uint16_t address parameter
ToU16(x) == x % UINT16

\* i2c_address & 0xF8
AndF8(x) == x - (x % 8)

\* uint32_t arithmetic on the halves: a - b and a + 1, modulo 2^32
U32Sub(a, b) ==
    [hi |-> (a.hi - b.hi - (IF a.lo < b.lo THEN 1 ELSE 0) + 2 * UINT16) % UINT16,
     lo |-> (a.lo - b.lo + UINT16) % UINT16]

U32Add(a, d) ==
    [hi |-> (a.hi + ((a.lo + d) \div UINT16)) % UINT16,
     lo |-> (a.lo + d) % UINT16]

(***************************************************************************)
(* Faulty variants of the driver's computations: each property below is    *)
(* shown to depend on the code by failing with one of them in its place    *)
(***************************************************************************)
\* the header repeats the start address: the offset i is forgotten
HeaderAddressNoOffset(address, i) ==
    LET a == SizeT(address) IN ((a \div 256) % 256) * 256 + (a % 256)

\* the contiguity test is left out: the buffer is never flushed before a write
\* elsewhere
NotContiguousNever(address, start, length) == FALSE

\* the result of endTransmission is not looked at
EndTransmissionIgnored(ack) == FALSE

\* res < 0 in place of res <= 0
RequestFailedNegative(n) == n < 0

\* the gate is left out
GateNeverClosed(now, timestamp) == FALSE

\* the page burst path is compiled out
UsePageWriteNever(address, i, length_capped) == FALSE

\* > in place of >= in the test for a full buffer
BufferFullLate(length) == length > m_size_page

\* the value buffer_flush returns is not looked at
FlushFailedNever(r) == FALSE

\* the contiguity test always fails: every buffered_write flushes first
NotContiguousAlways(address, start, length) == TRUE

DetectNever == FALSE

\* the start address is not checked
AddressInvalidNever(address) == FALSE

\* the test for a configured session is left out
NotSetUpNever == FALSE

\* setup masks with 0xF0: 0x58..0x5F pass as well
ValidBusAddressMaskF0(i2c_address) == (i2c_address - (i2c_address % 16)) = 80

\* setup accepts 0x50 alone
ValidBusAddressOnly80(i2c_address) == i2c_address = 80

\* the cursor moves on by one byte whatever the count reported
AdvanceByOne(index, r) == SizeT(index + 1)

\* the timestamp is not renewed after a burst
StampKept(now, timestamp) == timestamp

\* the header carries the low byte first
HeaderAddressLowFirst(address, i) ==
    LET a == SizeT(address + i) IN (a % 256) * 256 + ((a \div 256) % 256)

\* the page burst is chosen without looking at the bytes that remain
UsePageWriteAnyLength(address, i, length_capped) ==
    /\ platform.page_write_supported
    /\ SizeT(address + i) % m_size_page = 0
    /\ platform.i2c_buffer_size >= m_size_page + 2

\* the stream writes through the coalescing buffer
StreamWriteCalleeBuffered == "buffered_write"

(***************************************************************************)
(* The driver's pure computations                                          *)
(***************************************************************************)
\* setup: (i2c_address & 0xF8) != 0x50 is rejected
ValidBusAddress(i2c_address) == AndF8(i2c_address) = 80

\* m_i2c_library == NULL: no setup call has succeeded
NotSetUp == m_i2c_library = "NULL"

\* a bool as the int the sketch sees
BoolInt(b) == IF b THEN 1 ELSE 0

\* m_index_read += res; m_index_write += res;
Advance(index, r) == SizeT(index + r)

\* the function write(uint8_t) and write(const uint8_t*, size_t) call
StreamWriteCallee == "write"

\* if (index < m_size_total), of seek_read and seek_write
SeekValid(index) == index < m_size_total

\* if (address >= m_size_total) return -EINVAL;
AddressInvalid(address) == address >= m_size_total

\* (address + length > m_size_total) ? m_size_total - address : length
LengthCapped(address, length) ==
    IF SizeT(address + length) > m_size_total
    THEN SizeT(m_size_total - address)
    ELSE length

\* (millis() - m_timestamp_write) <= 5
GateClosed(now, timestamp) ==
    LET d == U32Sub(now, timestamp) IN d.hi = 0 /\ d.lo <= SETTLE_MS

\* m_timestamp_write = millis(); the value stored after a burst
Stamp(now, timestamp) == now

\* endTransmission(...) != 0, of the acknowledgement the transaction got
EndTransmissionFailed(ack) == ~ack

\* res <= 0, of the value requestFrom returned
RequestFailed(n) == n <= 0

\* res < 0, of the value buffer_flush returned to buffered_write
FlushFailed(r) == r < 0

\* res < 0, of the value write returned to buffered_write
DirectFailed(r) == r < 0

\* the two header bytes: (uint8_t)((address + i) >> 8), (uint8_t)((address + i) >> 0)
HeaderAddress(address, i) ==
    LET a  == SizeT(address + i)
        hi == (a \div 256) % 256
        lo == a % 256
    IN  hi * 256 + lo

\* the page write condition of write()
UsePageWrite(address, i, length_capped) ==
    /\ platform.page_write_supported
    /\ SizeT(address + i) % m_size_page = 0
    /\ SizeT(length_capped - i) >= m_size_page
    /\ platform.i2c_buffer_size >= m_size_page + 2

\* address != (m_buffer_start + m_buffer_length)
NotContiguous(address, start, length) == address # SizeT(start + length)

\* m_buffer_length >= m_size_page
BufferFull(length) == length >= m_size_page

\* (address + i) % m_size_page == 0
PageStart(address, i) == SizeT(address + i) % m_size_page = 0

\* byte k of a size_t value in the object's memory (little endian)
ByteOf(x, k) == (x \div (IF k = 0 THEN 1 ELSE 256)) % 256

SetByte(x, k, b) ==
    IF k = 0 THEN x - (x % 256) + b
    ELSE x - (((x \div 256) % 256) * 256) + b * 256

(***************************************************************************)
(* The device and the caller's data                                        *)
(***************************************************************************)
\* the memory array decodes 13 address bits
Cell(hdr) == hdr % m_size_total

\* a cell never written holds 0xFF
Eeprom(mem, c) == IF c \in DOMAIN mem THEN mem[c] ELSE 255

\* cell that byte k of a write transaction at hdr lands in: the address
\* counter rolls over inside the page
PageCell(hdr, k) ==
    LET c == Cell(hdr)
    IN  (c - (c % m_size_page)) + (((c % m_size_page) + k) % m_size_page)

\* device memory after a write transaction carrying bytes (a sequence) at hdr
DeviceWrite(mem, hdr, bytes) ==
    LET n     == Len(bytes)
        cells == { PageCell(hdr, k) : k \in 0..(n - 1) }
        last(c) == CHOOSE k \in 0..(n - 1) :
                      /\ PageCell(hdr, k) = c
                      /\ \A j \in 0..(n - 1) : PageCell(hdr, j) = c => j <= k
    IN  [c \in DOMAIN mem \cup cells |->
            IF c \in cells THEN bytes[last(c) + 1] ELSE mem[c]]

\* bytes a sequential read of n bytes at hdr delivers
DeviceRead(mem, hdr, n) ==
    [k \in 1..n |-> Eeprom(mem, (Cell(hdr) + (k - 1)) % m_size_total)]

\* the values m_buffer[k] can yield: inside the array the stored byte; past its
\* end the storage that follows the array (the bytes of m_buffer_start in the
\* usual layout, anything else otherwise)
BufValues(k) ==
    IF k < m_size_page THEN {m_buffer[k]}
    ELSE {ByteOf(m_buffer_start, k - m_size_page), 0}

\* the values data[k] can yield
DataValues(d, k) ==
    IF d.kind = "buf" THEN BufValues(k) ELSE {Pat(d.seed, d.off + k)}

\* the byte sequences data[i .. i + n) can yield (at most the last byte of a
\* transfer lies past the end of m_buffer)
DataBytes(d, i, n) ==
    IF n = 0 THEN {<<>>}
    ELSE { [k \in 1..n |-> IF k < n THEN CHOOSE w \in DataValues(d, i + k - 1) : TRUE
                           ELSE v] : v \in DataValues(d, i + n - 1) }

(***************************************************************************)
(* Call stack                                                              *)
(***************************************************************************)
Frame(fn, address, data, length) ==
    [fn |-> fn, pc |-> "entry", address |-> address, data |-> data, length |-> length,
     length_capped |-> 0, i |-> 0, pages |-> 0, singles |-> 0]

Top == stack[Len(stack)]

Pop == SubSeq(stack, 1, Len(stack) - 1)

SetTop(f) == [stack EXCEPT ![Len(stack)] = f]

Push(f, g) == Append(SetTop(f), g)

Running(fn, pc) == stack # <<>> /\ Top.fn = fn /\ Top.pc = pc

Idle == stack = <<>>

(***************************************************************************)
(* History of the run (read by the properties, never by the driver)        *)
(***************************************************************************)
NoCall ==
    [op |-> "none", address |-> 0, length |-> 0, seed |-> 0, settled |-> TRUE, fill0 |-> 0,
     start0 |-> 0, res |-> 0, faults |-> 0]

NoTxn == [kind |-> "none", hdr |-> 0, n |-> 0, ok |-> TRUE]

NoFlush == [fill |-> 0, start |-> 0, pages |-> 0, singles |-> 0, res |-> 0]

HistInit ==
    [faults |-> 0,           \* transport faults so far
     call |-> NoCall,        \* the top-level call in progress, or the last one
     prev |-> NoCall,        \* the top-level call before it, with its result
     call_faults |-> 0,      \* transport faults during `call`
     eeprom0 |-> << >>,      \* device memory when `call` was made
     shadow |-> << >>,       \* device memory had every buffered_write been a write
     direct |-> 0,           \* top-level direct writes made
     txns |-> 0,             \* address-bearing transactions issued during `call`
     nack |-> [txns |-> -1, i |-> 0, fill |-> 0],  \* the not-acknowledged write burst of `call`
     chunk_fail |-> [kind |-> "none", i |-> 0],  \* the failed read chunk of `call`
     last_txn |-> NoTxn,     \* the last bus transaction of `call`
     since_burst |-> -1,     \* ms since the last acknowledged write burst (-1: none yet)
     probe_acked |-> FALSE,  \* a liveness probe was acknowledged since that burst
     just_returned |-> "none",  \* the function that returned in the last step
     wr_stat |-> [pages |-> 0, singles |-> 0],   \* transactions of the write that returned last
     last_flush |-> NoFlush, \* the buffer_flush that wrote last
     oob_store |-> FALSE,
     setup |-> -1]           \* the bus address the last setup call was given    \* a byte was stored past the end of m_buffer

HStep(h) == [h EXCEPT !.just_returned = "none"]

HCall(h, op, address, length, seed) ==
    [h EXCEPT !.just_returned = "none",
              !.prev = [h.call EXCEPT !.res = res, !.faults = h.call_faults],
              !.call = [op |-> op, address |-> address, length |-> length, seed |-> seed,
                        settled |-> ~GateClosed(millis, m_timestamp_write),
                        fill0 |-> m_buffer_length,
                        start0 |-> m_buffer_start,
                        res |-> 0, faults |-> 0],
              !.call_faults = 0,
              !.eeprom0 = eeprom,
              !.direct = IF op = "write" THEN @ + 1 ELSE @,
              !.txns = 0,
              !.nack = [txns |-> -1, i |-> 0, fill |-> 0],
              !.chunk_fail = [kind |-> "none", i |-> 0],
              !.last_txn = NoTxn,
              !.last_flush = NoFlush]

HProbe(h, ack) ==
    [h EXCEPT !.just_returned = "none",
              !.last_txn = [kind |-> "probe", hdr |-> 0, n |-> 0, ok |-> ack],
              !.probe_acked = @ \/ ack]

HTxn(h, kind, hdr, n, ok) ==
    [h EXCEPT !.just_returned = "none",
              !.txns = Min(@ + 1, MaxBursts),
              !.last_txn = [kind |-> kind, hdr |-> hdr, n |-> n, ok |-> ok]]

HFault(h, is_fault) ==
    IF is_fault
    THEN [h EXCEPT !.faults = Min(@ + 1, MaxFaults), !.call_faults = Min(@ + 1, MaxFaults)]
    ELSE h

HBurstOk(h, ok) ==
    IF ok THEN [h EXCEPT !.since_burst = 0, !.probe_acked = FALSE] ELSE h

HTime(h, d) ==
    [h EXCEPT !.just_returned = "none",
              !.since_burst = IF @ = -1 THEN -1 ELSE Min(@ + d, SETTLE_MS + 1)]

\* the memory a direct write of the n bytes of data d at address leaves
DirectWrite(mem, address, d, n) ==
    LET cells == { Cell(ToU16(address + k)) : k \in 0..(n - 1) }
        last(c) == CHOOSE k \in 0..(n - 1) :
                      /\ Cell(ToU16(address + k)) = c
                      /\ \A j \in 0..(n - 1) : Cell(ToU16(address + j)) = c => j <= k
    IN  [c \in DOMAIN mem \cup cells |->
            IF c \in cells THEN Pat(d.seed, d.off + last(c)) ELSE mem[c]]

HRet(h, f, v) ==
    [h EXCEPT !.just_returned = f.fn,
              !.wr_stat = IF f.fn = "write" THEN [pages |-> f.pages, singles |-> f.singles] ELSE @,
              !.shadow = IF Len(stack) = 1 /\ f.fn \in {"write", "buffered_write"} /\ v >= 0
                         THEN DirectWrite(@, f.address, f.data, f.length_capped)
                         ELSE @]

\* the function of frame f returns v to its caller
Return(f, v, h) ==
    /\ stack' = Pop
    /\ res' = v
    /\ hist' = HRet(h, f, v)

(***************************************************************************)
(* Initial state: the object as constructed                                *)
(***************************************************************************)
Constructed ==
    /\ m_i2c_library = "NULL"
    /\ m_i2c_address = 0
    /\ m_timestamp_write = [hi |-> 0, lo |-> 0]
    /\ m_buffer = [k \in 0..(m_size_page - 1) |-> 0]
    /\ m_buffer_start = 0
    /\ m_buffer_length = 0
    /\ m_index_read = 0
    /\ m_index_write = 0
    /\ eeprom = << >>
    /\ stack = <<>>
    /\ res = 0
    /\ data_out = <<>>
    /\ hist = HistInit

Init ==
    /\ \E w \in Worlds :
         /\ platform = w.platform
         /\ millis = w.boot
         /\ device = [t_cycle |-> w.t_cycle, busy |-> 0, stall |-> FALSE]
         /\ todo \in Sketches(w.platform)
    /\ Constructed

\* The same object on a transport that may go on taking none of the bytes
\* offered to Wire.write, however often it is asked
InitLive ==
    /\ \E w \in LiveWorlds :
         /\ platform = w.platform
         /\ millis = w.boot
         /\ device = [t_cycle |-> w.t_cycle, busy |-> 0, stall |-> TRUE]
         /\ todo \in LiveSketches(w.platform)
    /\ Constructed

(***************************************************************************)
(* The environment: the clock, the device's write cycle and the caller     *)
(***************************************************************************)
\* d ms pass
Elapse(d) ==
    /\ millis' = U32Add(millis, d)
    /\ device' = [device EXCEPT !.busy = IF @ > d THEN @ - d ELSE 0]
    /\ hist' = HTime(hist, d)

\* a millisecond passes while the gate polls a device that is still busy (the
\* polling loop runs many times per millisecond)
Tick ==
    /\ stack # <<>>
    /\ Top.pc = "gate"
    /\ GateClosed(millis, m_timestamp_write)
    /\ device.busy > 0
    /\ Elapse(1)
    /\ UNCHANGED <<platform, cursors, session, m_timestamp_write, buffer, eeprom, stack, res, data_out,
                   todo>>

\* the next call of the sketch, when the driver is not running
Next_op == IF Idle /\ todo # <<>> THEN Head(todo).op ELSE "none"

\* the sketch lets the settling time pass before its next call
Sleep ==
    /\ Next_op = "delay"
    /\ LET d == U32Sub(millis, m_timestamp_write)
       IN  Elapse(IF GateClosed(millis, m_timestamp_write) THEN SETTLE_MS + 1 - d.lo ELSE 1)
    /\ todo' = Tail(todo)
    /\ UNCHANGED <<platform, cursors, session, m_timestamp_write, buffer, eeprom, stack, res, data_out>>

\* int m24c64::setup(TwoWire& i2c_library, const uint8_t i2c_address)
Setup ==
    /\ Next_op = "setup"
    /\ LET i2c_address == Head(todo).address
       IN  IF ~ValidBusAddress(i2c_address)
           THEN /\ res' = -EINVAL
                /\ UNCHANGED session
           ELSE /\ m_i2c_library' = "Wire"
                /\ m_i2c_address' = i2c_address
                /\ res' = 0
    /\ hist' = [hist EXCEPT !.just_returned = "setup", !.setup = Head(todo).address]
    /\ todo' = Tail(todo)
    /\ UNCHANGED <<platform, cursors, device, m_timestamp_write, buffer, millis, eeprom, stack, data_out>>

\* the sketch makes its next call: the frame of the function called
Call(c) ==
    /\ stack' = <<Frame(c.op, c.address,
                        IF c.op \in {"write", "buffered_write"} THEN PatData(c.seed, 0) ELSE NoData,
                        c.length)>>
    /\ hist' = HCall(hist, c.op, c.address, c.length, c.seed)
    /\ todo' = Tail(todo)

CallRead ==
    /\ Next_op = "read"
    /\ Call(Head(todo))
    /\ data_out' = <<>>
    /\ UNCHANGED <<platform, cursors, device, session, m_timestamp_write, buffer, millis, eeprom, res>>

CallWrite ==
    /\ Next_op = "write"
    /\ Call(Head(todo))
    /\ UNCHANGED <<platform, cursors, device, session, m_timestamp_write, buffer, millis, eeprom, res,
                   data_out>>

CallBufferedWrite ==
    /\ Next_op = "buffered_write"
    /\ Call(Head(todo))
    /\ UNCHANGED <<platform, cursors, device, session, m_timestamp_write, buffer, millis, eeprom, res,
                   data_out>>

CallBufferFlush ==
    /\ Next_op = "buffer_flush"
    /\ Call(Head(todo))
    /\ UNCHANGED <<platform, cursors, device, session, m_timestamp_write, buffer, millis, eeprom, res,
                   data_out>>

(***************************************************************************)
(* The transport's and the device's answers                                *)
(***************************************************************************)
\* bytes Wire.write takes of those offered
AcceptChoices(offered) == {offered, offered - 1, 0}

\* bytes Wire.requestFrom delivers of those requested
DeliverChoices(requested) == {0, 1, Min(requested, MaxRxBurst)}

\* bool m24c64::detect(void), called with the session configured: the device
\* acknowledges its address unless it is in a write cycle
Detect == device.busy = 0

\* the sketch calls detect(): one probe with the session configured, none and
\* false without
CallDetect ==
    /\ Next_op = "detect"
    /\ LET h == HCall(hist, "detect", 0, 0, 0) IN
         IF NotSetUp
         THEN /\ res' = BoolInt(FALSE)
              /\ hist' = [h EXCEPT !.just_returned = "detect"]
         ELSE /\ res' = BoolInt(Detect)
              /\ hist' = [HProbe(h, Detect) EXCEPT !.just_returned = "detect"]
    /\ todo' = Tail(todo)
    /\ UNCHANGED <<platform, cursors, device, session, m_timestamp_write, buffer, millis, eeprom, stack,
                   data_out>>

(***************************************************************************)
(* int m24c64::write(uint16_t address, const uint8_t* data, size_t length)  *)
(***************************************************************************)
WriteEntry ==
    /\ Running("write", "entry")
    /\ LET f == Top IN
         IF NotSetUp \/ AddressInvalid(f.address)
         THEN Return(f, -EINVAL, hist)
         ELSE LET lc == LengthCapped(f.address, f.length) IN
              IF 0 < lc
              THEN /\ stack' = SetTop([f EXCEPT !.length_capped = lc, !.pc = "gate"])
                   /\ res' = res
                   /\ hist' = HStep(hist)
              ELSE Return([f EXCEPT !.length_capped = lc], ToInt(lc), hist)
    /\ UNCHANGED <<platform, cursors, todo, device, session, m_timestamp_write, buffer, millis, eeprom,
                   data_out>>

\* while ((millis() - m_timestamp_write) <= 5) { if (detect() == true) break; }
WriteGate ==
    /\ Running("write", "gate")
    /\ LET f == Top IN
         IF GateClosed(millis, m_timestamp_write)
         THEN /\ stack' = IF Detect THEN SetTop([f EXCEPT !.pc = "burst"]) ELSE stack
              /\ hist' = HProbe(hist, Detect)
         ELSE /\ stack' = SetTop([f EXCEPT !.pc = "burst"])
              /\ hist' = HStep(hist)
    /\ UNCHANGED <<platform, cursors, todo, device, session, m_timestamp_write, buffer, millis, eeprom, res,
                   data_out>>

\* one transaction: header, one page or one byte of data, endTransmission(true)
WriteBurst ==
    /\ Running("write", "burst")
    /\ hist.txns < MaxBursts \/ device.stall
    /\ LET f       == Top
           hdr     == HeaderAddress(f.address, f.i)
           page    == UsePageWrite(f.address, f.i, f.length_capped)
           offered == IF page THEN m_size_page ELSE 1
       IN  \E accepted \in AcceptChoices(offered), ack \in BOOLEAN :
             /\ accepted >= 0
             /\ (accepted # offered \/ ~ack)
                  => \/ hist.faults < MaxFaults
                     \/ device.stall /\ accepted = 0 /\ ack
             /\ \E bytes \in DataBytes(f.data, f.i, accepted) :
                  LET g == [f EXCEPT !.i = SizeT(f.i + accepted),
                                     !.pages = IF page THEN Min(@ + 1, MaxBursts) ELSE @,
                                     !.singles = IF page THEN @ ELSE Min(@ + 1, MaxBursts)]
                      h == HBurstOk(
                             HFault(
                               [HTxn(hist, IF page THEN "page" ELSE "byte", hdr, accepted, ack)
                                  EXCEPT !.nack = IF ack THEN @
                                                  ELSE [txns |-> hist.txns + 1, i |-> f.i,
                                                        fill |-> m_buffer_length]],
                               accepted # offered \/ ~ack),
                             ack)
                  IN  IF EndTransmissionFailed(ack)
                      THEN /\ Return(g, -EIO, h)
                           /\ UNCHANGED <<m_timestamp_write, eeprom, device>>
                      ELSE /\ m_timestamp_write' = Stamp(millis, m_timestamp_write)
                           /\ eeprom' = DeviceWrite(eeprom, hdr, bytes)
                           /\ device' = [device EXCEPT !.busy = IF accepted > 0
                                                                THEN device.t_cycle ELSE @]
                           /\ IF g.i < g.length_capped
                              THEN /\ stack' = SetTop([g EXCEPT !.pc = "gate"])
                                   /\ res' = res
                                   /\ hist' = h
                              ELSE Return(g, ToInt(g.length_capped), h)
    /\ UNCHANGED <<platform, cursors, todo, session, buffer, millis, data_out>>

(***************************************************************************)
(* int m24c64::read(uint16_t address, uint8_t* data, size_t length)         *)
(***************************************************************************)
ReadEntry ==
    /\ Running("read", "entry")
    /\ LET f == Top IN
         IF NotSetUp \/ AddressInvalid(f.address)
         THEN Return(f, -EINVAL, hist)
         ELSE /\ stack' = SetTop([f EXCEPT !.length_capped = LengthCapped(f.address, f.length),
                                           !.pc = "gate"])
              /\ res' = res
              /\ hist' = HStep(hist)
    /\ UNCHANGED <<platform, cursors, todo, device, session, m_timestamp_write, buffer, millis, eeprom,
                   data_out>>

\* the gate, once, before the loop; then the loop's first test
ReadGate ==
    /\ Running("read", "gate")
    /\ LET f == Top
           pass(h) == IF 0 < f.length_capped
                      THEN /\ stack' = SetTop([f EXCEPT !.pc = "chunk"])
                           /\ res' = res
                           /\ hist' = h
                      ELSE Return(f, ToInt(f.length_capped), h)
       IN  IF GateClosed(millis, m_timestamp_write)
           THEN IF Detect
                THEN pass(HProbe(hist, TRUE))
                ELSE /\ stack' = stack
                     /\ res' = res
                     /\ hist' = HProbe(hist, FALSE)
           ELSE pass(HStep(hist))
    /\ UNCHANGED <<platform, cursors, todo, device, session, m_timestamp_write, buffer, millis, eeprom,
                   data_out>>

\* one chunk: header, endTransmission(false), requestFrom, the bytes delivered
ReadChunk ==
    /\ Running("read", "chunk")
    /\ hist.txns < MaxBursts
    /\ LET f   == Top
           hdr == HeaderAddress(f.address, f.i)
       IN  \E ack \in BOOLEAN, n \in DeliverChoices(SizeT(f.length_capped - f.i)) :
             /\ (~ack \/ n = 0) => hist.faults < MaxFaults
             /\ ~ack => n = 0
             /\ LET h == HFault(
                           [HTxn(hist, "read", hdr, n, ack /\ n > 0)
                              EXCEPT !.chunk_fail =
                                 IF ~ack THEN [kind |-> "address", i |-> f.i]
                                 ELSE IF n = 0 THEN [kind |-> "data", i |-> f.i]
                                 ELSE @],
                           ~ack \/ n = 0)
                    g == [f EXCEPT !.i = SizeT(f.i + n)]
                IN  IF EndTransmissionFailed(ack)
                    THEN /\ Return(f, -EIO, h)
                         /\ data_out' = data_out
                    ELSE IF RequestFailed(n)
                    THEN /\ Return(f, ToInt(f.i), h)
                         /\ data_out' = data_out
                    ELSE /\ data_out' = data_out \o DeviceRead(eeprom, hdr, n)
                         /\ IF g.i < g.length_capped
                            THEN /\ stack' = SetTop(g)
                                 /\ res' = res
                                 /\ hist' = h
                            ELSE Return(g, ToInt(g.length_capped), h)
    /\ UNCHANGED <<platform, cursors, todo, device, session, m_timestamp_write, buffer, millis, eeprom>>

(***************************************************************************)
(* int m24c64::buffer_flush(void)                                          *)
(***************************************************************************)
FlushEntry ==
    /\ Running("buffer_flush", "entry")
    /\ LET f == Top IN
         IF m_buffer_length > 0
         THEN /\ stack' = Push([f EXCEPT !.pc = "after_write"],
                               Frame("write", ToU16(m_buffer_start), BufData, m_buffer_length))
              /\ res' = res
              /\ hist' = HStep(hist)
         ELSE Return(f, 0, hist)
    /\ UNCHANGED <<platform, cursors, todo, device, session, m_timestamp_write, buffer, millis, eeprom,
                   data_out>>

FlushAfterWrite ==
    /\ Running("buffer_flush", "after_write")
    /\ LET f == Top
           h == [hist EXCEPT !.last_flush =
                    [fill |-> m_buffer_length, start |-> m_buffer_start,
                     pages |-> hist.wr_stat.pages, singles |-> hist.wr_stat.singles,
                     res |-> res]]
       IN  IF res < 0
           THEN /\ Return(f, res, h)
                /\ UNCHANGED m_buffer_length
           ELSE /\ m_buffer_length' = 0
                /\ Return(f, res, h)
    /\ UNCHANGED <<platform, cursors, todo, device, session, m_timestamp_write, m_buffer, m_buffer_start,
                   millis, eeprom, data_out>>

(***************************************************************************)
(* int m24c64::buffered_write(uint16_t address, const uint8_t* data,        *)
(*                            size_t length)                               *)
(***************************************************************************)
\* m_buffer[index] = b: inside the array the byte is stored; past its end the
\* store lands in the storage that follows the array (m_buffer_start in the
\* usual layout) or nowhere the driver reads
StoreOutcomes(index, b) ==
    IF index < m_size_page
    THEN { [buf |-> [m_buffer EXCEPT ![index] = b], start |-> m_buffer_start] }
    ELSE { [buf |-> m_buffer, start |-> SetByte(m_buffer_start, index - m_size_page, b)],
           [buf |-> m_buffer, start |-> m_buffer_start] }

BwEntry ==
    /\ Running("buffered_write", "entry")
    /\ LET f == Top IN
         IF NotSetUp \/ AddressInvalid(f.address)
         THEN Return(f, -EINVAL, hist)
         ELSE LET g == [f EXCEPT !.length_capped = LengthCapped(f.address, f.length)] IN
              /\ res' = res
              /\ hist' = HStep(hist)
              /\ IF ~platform.page_write_supported
                 THEN stack' = Push([g EXCEPT !.pc = "after_forward"],
                                    Frame("write", f.address, f.data, f.length))
                 ELSE IF NotContiguous(f.address, m_buffer_start, m_buffer_length)
                 THEN stack' = Push([g EXCEPT !.pc = "after_preflush"],
                                    Frame("buffer_flush", 0, NoData, 0))
                 ELSE stack' = SetTop([g EXCEPT !.pc = "loop"])
    /\ UNCHANGED <<platform, cursors, todo, device, session, m_timestamp_write, buffer, millis, eeprom,
                   data_out>>

\* return write(address, data, length);
BwAfterForward ==
    /\ Running("buffered_write", "after_forward")
    /\ Return(Top, res, hist)
    /\ UNCHANGED <<platform, cursors, todo, device, session, m_timestamp_write, buffer, millis, eeprom,
                   data_out>>

\* res = buffer_flush(); if (res < 0) return res;
BwAfterPreflush ==
    /\ Running("buffered_write", "after_preflush")
    /\ IF FlushFailed(res)
       THEN Return(Top, res, hist)
       ELSE /\ stack' = SetTop([Top EXCEPT !.pc = "loop"])
            /\ res' = res
            /\ hist' = HStep(hist)
    /\ UNCHANGED <<platform, cursors, todo, device, session, m_timestamp_write, buffer, millis, eeprom,
                   data_out>>

\* one iteration of the loop over the input bytes, up to the call it makes
BwLoop ==
    /\ Running("buffered_write", "loop")
    /\ LET f == Top IN
         IF ~(f.i < f.length_capped)
         THEN /\ Return(f, ToInt(f.length_capped), hist)
              /\ UNCHANGED buffer
         ELSE \E b \in DataValues(f.data, f.i) :
              IF m_buffer_length > 0
              THEN \E o \in StoreOutcomes(m_buffer_length, b) :
                     /\ m_buffer' = o.buf
                     /\ m_buffer_start' = o.start
                     /\ m_buffer_length' = SizeT(m_buffer_length + 1)
                     /\ res' = res
                     /\ hist' = [HStep(hist) EXCEPT
                                   !.oob_store = @ \/ m_buffer_length >= m_size_page]
                     /\ IF BufferFull(m_buffer_length')
                        THEN stack' = Push([f EXCEPT !.pc = "after_flush"],
                                           Frame("buffer_flush", 0, NoData, 0))
                        ELSE stack' = SetTop([f EXCEPT !.i = SizeT(f.i + 1)])
              ELSE IF PageStart(f.address, f.i)
              THEN \E o \in StoreOutcomes(m_buffer_length, b) :
                     /\ m_buffer' = o.buf
                     /\ m_buffer_start' = SizeT(f.address + f.i)
                     /\ m_buffer_length' = SizeT(m_buffer_length + 1)
                     /\ res' = res
                     /\ hist' = HStep(hist)
                     /\ stack' = SetTop([f EXCEPT !.i = SizeT(f.i + 1)])
              ELSE /\ stack' = Push([f EXCEPT !.pc = "after_direct"],
                                    Frame("write", ToU16(SizeT(f.address + f.i)),
                                          PatData(f.data.seed, f.data.off + f.i), 1))
                   /\ res' = res
                   /\ hist' = HStep(hist)
                   /\ UNCHANGED buffer
    /\ UNCHANGED <<platform, cursors, todo, device, session, m_timestamp_write, millis, eeprom, data_out>>

\* int res = buffer_flush(); if (res < 0) return res;   (then i++)
BwAfterFlush ==
    /\ Running("buffered_write", "after_flush")
    /\ IF FlushFailed(res)
       THEN Return(Top, res, hist)
       ELSE /\ stack' = SetTop([Top EXCEPT !.pc = "loop", !.i = SizeT(Top.i + 1)])
            /\ res' = res
            /\ hist' = HStep(hist)
    /\ UNCHANGED <<platform, cursors, todo, device, session, m_timestamp_write, buffer, millis, eeprom,
                   data_out>>

\* res = write(address + i, &data[i], 1); if (res < 0) return res;   (then i++)
BwAfterDirect ==
    /\ Running("buffered_write", "after_direct")
    /\ IF DirectFailed(res)
       THEN Return(Top, res, hist)
       ELSE /\ stack' = SetTop([Top EXCEPT !.pc = "loop", !.i = SizeT(Top.i + 1)])
            /\ res' = res
            /\ hist' = HStep(hist)
    /\ UNCHANGED <<platform, cursors, todo, device, session, m_timestamp_write, buffer, millis, eeprom,
                   data_out>>

(***************************************************************************)
(* The stream interface: int read(), int peek(), size_t write(uint8_t),    *)
(* size_t write(const uint8_t*, size_t), seek_read, seek_write             *)
(***************************************************************************)
\* the local `uint8_t data` of read() and peek() has no initialiser: when
\* read stored nothing into it, it holds any byte (the lowest, the highest and
\* one between are explored)
Uninitialised == {0, 90, 255}

CallStreamRead ==
    /\ Next_op \in {"stream_read", "peek"}
    /\ LET c == Head(todo) IN
         /\ stack' = <<Frame(c.op, m_index_read, NoData, 1)>>
         /\ hist' = HCall(hist, c.op, m_index_read, 1, 0)
    /\ todo' = Tail(todo)
    /\ data_out' = <<>>
    /\ UNCHANGED <<platform, cursors, device, session, m_timestamp_write, buffer, millis, eeprom,
                   res>>

CallStreamWrite ==
    /\ Next_op \in {"stream_write", "stream_write_buf"}
    /\ LET c == Head(todo) IN
         /\ stack' = <<Frame(c.op, m_index_write, PatData(c.seed, 0), c.length)>>
         /\ hist' = HCall(hist, c.op, m_index_write, c.length, c.seed)
    /\ todo' = Tail(todo)
    /\ UNCHANGED <<platform, cursors, device, session, m_timestamp_write, buffer, millis, eeprom,
                   res, data_out>>

\* size_t m24c64::seek_read(size_t index), size_t m24c64::seek_write(size_t index);
\* (size_t)-1 is returned as -1
Seek ==
    /\ Next_op \in {"seek_read", "seek_write"}
    /\ LET c == Head(todo) IN
         IF SeekValid(c.address)
         THEN /\ m_index_read' = IF c.op = "seek_read" THEN c.address ELSE m_index_read
              /\ m_index_write' = IF c.op = "seek_write" THEN c.address ELSE m_index_write
              /\ res' = c.address
         ELSE /\ UNCHANGED cursors
              /\ res' = -1
    /\ hist' = [hist EXCEPT !.just_returned = Head(todo).op]
    /\ todo' = Tail(todo)
    /\ UNCHANGED <<platform, device, session, m_timestamp_write, buffer, millis, eeprom, stack,
                   data_out>>

\* int res = read(m_index_read, &data, 1);
StreamReadEntry ==
    /\ stack # <<>>
    /\ Top.fn \in {"stream_read", "peek"}
    /\ Top.pc = "entry"
    /\ stack' = Push([Top EXCEPT !.pc = "after"], Frame("read", ToU16(m_index_read), NoData, 1))
    /\ res' = res
    /\ hist' = HStep(hist)
    /\ UNCHANGED <<platform, cursors, todo, device, session, m_timestamp_write, buffer, millis,
                   eeprom, data_out>>

\* if (res < 0) return -1; else { m_index_read += res; return data; } (peek
\* leaves the cursor): data is the byte read stored, if it stored one
StreamReadAfter ==
    /\ stack # <<>>
    /\ Top.fn \in {"stream_read", "peek"}
    /\ Top.pc = "after"
    /\ LET f == Top IN
         IF res < 0
         THEN /\ Return(f, -1, hist)
              /\ UNCHANGED cursors
         ELSE /\ m_index_read' = IF f.fn = "stream_read" THEN Advance(m_index_read, res)
                                  ELSE m_index_read
              /\ m_index_write' = m_index_write
              /\ \E data \in IF data_out # <<>> THEN {data_out[1]} ELSE Uninitialised :
                   Return(f, data, hist)
    /\ UNCHANGED <<platform, todo, device, session, m_timestamp_write, buffer, millis, eeprom,
                   data_out>>

\* int res = write(m_index_write, &data, 1); int res = write(m_index_write, data, length);
StreamWriteEntry ==
    /\ stack # <<>>
    /\ Top.fn \in {"stream_write", "stream_write_buf"}
    /\ Top.pc = "entry"
    /\ stack' = Push([Top EXCEPT !.pc = "after"],
                     Frame(StreamWriteCallee, ToU16(m_index_write), Top.data, Top.length))
    /\ res' = res
    /\ hist' = HStep(hist)
    /\ UNCHANGED <<platform, cursors, todo, device, session, m_timestamp_write, buffer, millis,
                   eeprom, data_out>>

\* if (res < 0) return 0; else { m_index_write += res; return res; }
StreamWriteAfter ==
    /\ stack # <<>>
    /\ Top.fn \in {"stream_write", "stream_write_buf"}
    /\ Top.pc = "after"
    /\ LET f == Top IN
         IF res < 0
         THEN /\ Return(f, 0, hist)
              /\ UNCHANGED cursors
         ELSE /\ m_index_write' = Advance(m_index_write, res)
              /\ m_index_read' = m_index_read
              /\ Return(f, res, hist)
    /\ UNCHANGED <<platform, todo, device, session, m_timestamp_write, buffer, millis, eeprom,
                   data_out>>

(***************************************************************************)
(* Specification                                                           *)
(***************************************************************************)
Next ==
    \/ Tick
    \/ Sleep
    \/ Setup
    \/ CallRead
    \/ CallWrite
    \/ CallBufferedWrite
    \/ CallBufferFlush
    \/ CallDetect
    \/ WriteEntry
    \/ WriteGate
    \/ WriteBurst
    \/ ReadEntry
    \/ ReadGate
    \/ ReadChunk
    \/ FlushEntry
    \/ FlushAfterWrite
    \/ BwEntry
    \/ BwAfterForward
    \/ BwAfterPreflush
    \/ BwLoop
    \/ BwAfterFlush
    \/ BwAfterDirect
    \/ CallStreamRead
    \/ CallStreamWrite
    \/ Seek
    \/ StreamReadEntry
    \/ StreamReadAfter
    \/ StreamWriteEntry
    \/ StreamWriteAfter

Spec == Init /\ [][Next]_vars

(***************************************************************************)
(* Properties                                                              *)
(***************************************************************************)
\* min(l, 8192 - a), for a < 8192
EffLen(a, l) == Min(l, m_size_total - a)

\* the function the sketch called: the outermost frame
Outer == stack[1]

\* the top-level call fn has just returned to the sketch
Returned(fn) == Idle /\ hist.just_returned = fn /\ hist.call.op = fn

\* the bus transactions that carry a memory address
DataTxn == hist.last_txn.kind \in {"page", "byte", "read"}

\* C1: with the session configured and a < 8192, read, write and
\* buffered_write work on the effective length min(l, 8192 - a) exactly, and no
\* bus transaction of theirs addresses a byte index >= 8192 (so a + l = 8192
\* is not shortened and a = 8191, l = 10 touches the last byte only).
EffectiveLengthExact ==
    (/\ ~Idle
     /\ Outer.fn \in {"read", "write", "buffered_write"}
     /\ Outer.pc # "entry"
     /\ ~hist.oob_store)
    => /\ Outer.length_capped = EffLen(Outer.address, Outer.length)
       /\ DataTxn => hist.last_txn.hdr + hist.last_txn.n <= m_size_total
       /\ (DataTxn /\ Outer.fn # "buffered_write") => hist.last_txn.hdr >= Outer.address

\* the data of the write the sketch made before its read
Written(n) == [k \in 1..n |-> Pat(hist.prev.seed, k - 1)]

\* a write returned its effective length and the read of the same range that
\* the sketch made next, after the settling time, has returned; no transport fault
ReadBack ==
    /\ Returned("read")
    /\ hist.prev.op = "write"
    /\ hist.prev.address = hist.call.address
    /\ hist.prev.length = hist.call.length
    /\ hist.call.address < m_size_total
    /\ hist.prev.res = EffLen(hist.prev.address, hist.prev.length)
    /\ hist.call.settled
    /\ hist.faults = 0

\* C2: after write(a, d, l) returned the effective length n on an
\* acknowledging transport, a read(a, buf, l) made once the settling time has
\* passed returns n and buf[0..n) = d[0..n), however the transfer is split.
RoundTrip ==
    ReadBack => /\ res = hist.prev.res
                /\ data_out = Written(hist.prev.res)

\* a write of a page and a byte was read back in more than one chunk
RoundTripWitness ==
    /\ ReadBack
    /\ platform.page_write_supported
    /\ res = m_size_page + 1
    /\ hist.txns > 2

\* C3: whatever calls were made, failed ones included, the fill length of the
\* coalescing buffer is at most one page and no append stores at an index >= 32.
BufferWithinPage == m_buffer_length <= m_size_page /\ ~hist.oob_store

\* the sketch made buffered_write calls only, the transport acknowledged
\* everything, and a buffer_flush has just returned success
FlushedAfterBufferedWrites ==
    /\ Returned("buffer_flush")
    /\ res >= 0
    /\ m_i2c_library # "NULL"
    /\ hist.direct = 0
    /\ hist.faults = 0

\* C4: after buffered_write calls on an acknowledging transport and a
\* successful buffer_flush the buffer is empty and the device memory is the
\* memory the same calls leave when made as direct writes, in the same order.
BufferingTransparent ==
    FlushedAfterBufferedWrites => /\ m_buffer_length = 0
                                  /\ eeprom = hist.shadow

\* two buffered writes were batched, the second one of a page and a byte that
\* rewrote what the first had stored, and the explicit flush wrote the rest
BufferingTransparentWitness ==
    /\ FlushedAfterBufferedWrites
    /\ platform.page_write_supported
    /\ hist.last_flush.fill = 1
    /\ hist.prev.op = "buffered_write"
    /\ hist.prev.address = 0
    /\ hist.prev.length = m_size_page + 1
    /\ \A c \in 0..m_size_page : eeprom[c] = Pat(hist.prev.seed, c)

\* a burst of the call in progress was not acknowledged
BurstFailed == hist.nack.txns # -1

\* C5: when a burst of a write fails, write returns -EIO however many
\* bursts succeeded before, issues no further transaction in that call, and
\* the device holds the bytes of the earlier bursts and nothing after them.
WriteAbortsOnFailure ==
    BurstFailed => /\ (hist.just_returned = "write"
                         \/ hist.call.op \notin {"stream_write", "stream_write_buf"})
                        => res = -EIO
                   /\ hist.txns = hist.nack.txns
                   /\ \A k \in 1..Len(stack) : stack[k].fn # "write"
                   /\ hist.call.op = "write"
                        => /\ Idle
                           /\ eeprom = DirectWrite(hist.eeprom0, hist.call.address,
                                                   PatData(hist.call.seed, 0), hist.nack.i)

\* the second burst of a write failed after a page was committed
WriteAbortsWitness ==
    /\ BurstFailed
    /\ hist.call.op = "write"
    /\ hist.nack.i = m_size_page
    /\ hist.nack.txns = 2
    /\ Idle

\* a chunk of the read that has just returned failed
ChunkFailed(kind) == Returned("read") /\ hist.chunk_fail.kind = kind

\* C6 as stated: when a chunk fails after at least one byte was transferred
\* (address phase not acknowledged, or data request delivering nothing), read
\* returns the count of bytes read so far, not an error code.
PartialReadReturnsCount ==
    ((ChunkFailed("address") \/ ChunkFailed("data")) /\ hist.chunk_fail.i > 0)
    => res = hist.chunk_fail.i

\* C6, amended: after at least one byte was transferred, a data request that
\* delivers nothing makes read return the count of bytes read so far, and an
\* address phase that is not acknowledged makes it return -EIO.
PartialReadByFailure ==
    /\ (ChunkFailed("data") /\ hist.chunk_fail.i > 0)
          => /\ res = hist.chunk_fail.i
             /\ Len(data_out) = res
    /\ (ChunkFailed("address") /\ hist.chunk_fail.i > 0) => res = -EIO

\* a read that had transferred a byte got nothing from its next data request
PartialReadWitness ==
    /\ ChunkFailed("data")
    /\ hist.chunk_fail.i > 0
    /\ hist.call.length > hist.chunk_fail.i

\* C7: when the first chunk of a read of effective length > 0 fails before a
\* byte was read (address phase not acknowledged, or data request delivering
\* nothing), read returns a negative value, never 0.
FirstChunkFailureIsError ==
    ((ChunkFailed("address") \/ ChunkFailed("data")) /\ hist.chunk_fail.i = 0)
    => res < 0

\* this step issues a bus transaction that carries a memory address
IssuesTransaction == hist'.txns = hist.txns + 1

\* C8: a read or write called less than 5 ms after a write burst succeeded
\* starts its first address-bearing transaction no earlier than 5 ms after that
\* burst, unless the device acknowledged a liveness probe made since; the same
\* holds before every burst of a multi-burst write.
SettlingGate ==
    [][IssuesTransaction => \/ hist.since_burst = -1
                            \/ hist.since_burst >= SETTLE_MS
                            \/ hist.probe_acked]_vars

\* a read called at once after a write has made its first transaction, having
\* waited out the settling time with no probe acknowledged
SettlingGateWitness ==
    /\ hist.call.op = "read"
    /\ hist.prev.op = "write"
    /\ hist.prev.res > 0
    /\ ~hist.call.settled
    /\ hist.txns = 1
    /\ ~hist.probe_acked
    /\ hist.since_burst > SETTLE_MS

\* C9: when buffer_flush returns, called by the sketch or from inside
\* buffered_write, the buffer is empty, whether the flush succeeded or
\* returned a propagated I/O error.
FlushEmptiesBuffer == hist.just_returned = "buffer_flush" => m_buffer_length = 0

\* a flush of a buffer of at most one page, all acknowledged, has returned
FlushDone ==
    /\ hist.just_returned = "buffer_flush"
    /\ hist.last_flush.fill > 0
    /\ hist.last_flush.fill <= m_size_page
    /\ hist.last_flush.res >= 0
    /\ hist.call_faults = 0

\* C10 as stated: every flush of a non-empty buffer is one bus transaction, a
\* page burst at the page-aligned buffer start, never single-byte transactions.
FlushIsOnePageBurst ==
    FlushDone => /\ hist.last_flush.pages = 1
                 /\ hist.last_flush.singles = 0
                 /\ hist.last_flush.start % m_size_page = 0

\* C10, amended: the flush starts at the page-aligned buffer start; a full
\* buffer is flushed as one page burst when the transport carries a page and
\* its header, and any other flush as one single-byte transaction per byte.
FlushBursts ==
    FlushDone =>
      /\ hist.last_flush.start % m_size_page = 0
      /\ IF hist.last_flush.fill = m_size_page
            /\ platform.i2c_buffer_size >= m_size_page + 2
         THEN /\ hist.last_flush.pages = 1
              /\ hist.last_flush.singles = 0
              /\ hist.last_txn = [kind |-> "page", hdr |-> hist.last_flush.start,
                                  n |-> m_size_page, ok |-> TRUE]
         ELSE /\ hist.last_flush.pages = 0
              /\ hist.last_flush.singles = hist.last_flush.fill

\* an explicit flush of a buffer holding three bytes has returned
FlushBurstsWitness ==
    /\ FlushDone
    /\ Returned("buffer_flush")
    /\ hist.last_flush.fill = 3
    /\ hist.last_flush.singles = 3

\* the transport carries a page and its two header bytes in one transaction
PageCapable ==
    platform.page_write_supported /\ platform.i2c_buffer_size >= m_size_page + 2

\* the call c is a one-byte buffered_write that continues a run of such calls
\* begun at a page start with an empty buffer: the buffer held the bytes of
\* the page before its address when it was made
ConsecutiveByte(c) ==
    /\ c.op = "buffered_write"
    /\ c.length = 1
    /\ c.address < m_size_total
    /\ c.fill0 = c.address % m_size_page

\* C11: on a page-capable transport, 32 one-byte buffered_write calls at
\* consecutive addresses from a page start with an empty buffer issue no
\* transaction during the first 31 calls and exactly one page burst, and no
\* single-byte transaction, at the 32nd; a buffer_flush after that issues none.
BytewisePageIsOneBurst ==
    (PageCapable /\ m_i2c_library # "NULL" /\ hist.faults = 0)
    => /\ (/\ ConsecutiveByte(hist.call)
           /\ hist.call.fill0 > 0 => m_buffer_start = hist.call.address - hist.call.fill0)
          => /\ hist.call.fill0 < m_size_page - 1 => hist.txns = 0
             /\ (hist.call.fill0 = m_size_page - 1 /\ Returned("buffered_write"))
                   => /\ hist.txns = 1
                      /\ hist.last_txn = [kind |-> "page", hdr |-> m_buffer_start,
                                          n |-> m_size_page, ok |-> TRUE]
                      /\ m_buffer_length = 0
                      /\ res = 1
       /\ (/\ hist.call.op = "buffer_flush"
           /\ ConsecutiveByte(hist.prev)
           /\ hist.prev.fill0 = m_size_page - 1
           /\ hist.prev.res = 1)
          => hist.txns = 0

\* the 32nd one-byte call has returned, the page sent, and the flush that
\* followed has returned too
BytewisePageWitness ==
    /\ PageCapable
    /\ hist.faults = 0
    /\ Returned("buffer_flush")
    /\ ConsecutiveByte(hist.prev)
    /\ hist.prev.fill0 = m_size_page - 1
    /\ hist.prev.res = 1
    /\ \A c \in 0..(m_size_page - 1) : Eeprom(eeprom, c) = Pat(hist.prev.seed, 0)

\* a buffered_write made at a non-page-aligned address with an empty buffer on
\* a build that buffers, all acknowledged, has returned
UnalignedReturned ==
    /\ Returned("buffered_write")
    /\ platform.page_write_supported
    /\ m_i2c_library # "NULL"
    /\ hist.call.address < m_size_total
    /\ hist.call.address % m_size_page # 0
    /\ hist.call.fill0 = 0
    /\ hist.faults = 0

\* C12: a buffered_write that starts at a non-page-aligned address with an
\* empty buffer never buffers: whatever its length, every byte is written
\* directly as a single-byte write and the buffer is empty when it returns.
UnalignedNeverBuffers ==
    UnalignedReturned => /\ m_buffer_length = 0
                         /\ res = EffLen(hist.call.address, hist.call.length)
                         /\ hist.txns = res
                         /\ hist.wr_stat.pages = 0

\* the call in progress, or just returned, is a buffered_write made at a valid
\* address that is not buffer start + fill while the buffer held data
NonContiguousCall ==
    /\ hist.call.op = "buffered_write"
    /\ platform.page_write_supported
    /\ m_i2c_library # "NULL"
    /\ hist.call.address < m_size_total
    /\ hist.call.fill0 > 0
    /\ hist.call.fill0 <= m_size_page
    /\ hist.call.address # hist.call.start0 + hist.call.fill0

\* the cells of the bytes that were pending when the call was made
PendingCells == { Cell(hist.call.start0 + k) : k \in 0..(hist.call.fill0 - 1) }

\* the call is about to take its first input byte
AtFirstByte ==
    /\ ~Idle
    /\ Outer.fn = "buffered_write"
    /\ Outer.pc = "loop"
    /\ Outer.i = 0
    /\ Len(stack) = 1

\* the flush of the pending bytes failed and the call has returned
PreflushFailed ==
    /\ Returned("buffered_write")
    /\ hist.last_flush.res < 0
    /\ hist.last_flush.fill = hist.call.fill0
    /\ hist.last_flush.start = hist.call.start0

\* C13: a buffered_write at an address other than buffer start + fill, the
\* buffer holding data, flushes the pending bytes to the device before any
\* byte of the new call is buffered or written; when that flush fails its
\* error is returned and none of the new call's bytes is accepted.
FlushBeforeNonContiguous ==
    NonContiguousCall
    => /\ AtFirstByte
             => /\ hist.last_flush.res = hist.call.fill0
                /\ m_buffer_length = 0
                /\ \A k \in 0..(hist.call.fill0 - 1) :
                      Eeprom(eeprom, Cell(hist.call.start0 + k)) = m_buffer[k]
       /\ PreflushFailed
             => /\ res = hist.last_flush.res
                /\ m_buffer_length = hist.call.fill0
                /\ m_buffer_start = hist.call.start0
                /\ \A c \in DOMAIN eeprom \ PendingCells :
                      c \in DOMAIN hist.eeprom0 /\ eeprom[c] = hist.eeprom0[c]

\* the pending byte is on the device and the new call is about to take its
\* first byte
FlushBeforeWitness ==
    /\ NonContiguousCall
    /\ AtFirstByte
    /\ hist.call.length > 0
    /\ hist.last_flush.res = hist.call.fill0

\* the buffer_flush of frame k was called by the sketch, by buffered_write
\* because the buffer had reached a page, or by buffered_write because its
\* address is not buffer start + fill
FlushCalledFor(k) ==
    \/ k = 1
    \/ /\ k > 1
       /\ stack[k - 1].fn = "buffered_write"
       /\ \/ stack[k - 1].pc = "after_flush" /\ m_buffer_length >= m_size_page
          \/ /\ stack[k - 1].pc = "after_preflush"
             /\ stack[k - 1].address # m_buffer_start + m_buffer_length

\* a read made right after a buffered_write of the same range, bytes of which
\* are still in the buffer, has returned all of the range
ReadWhileBuffered ==
    /\ Returned("read")
    /\ hist.prev.op = "buffered_write"
    /\ hist.prev.address = hist.call.address
    /\ hist.prev.length = hist.call.length
    /\ hist.prev.res = hist.prev.length
    /\ res = hist.call.length
    /\ m_buffer_length > 0
    /\ m_buffer_length <= m_size_page

\* C14: a byte held in the buffer reaches the device only when the buffer
\* reaches a page, when a buffered_write arrives at a non-contiguous address or
\* when buffer_flush is called; until then the device is not written from the
\* buffer and a read returns what the device holds, not the buffered bytes.
BufferedStaysOffDevice ==
    /\ [][(m_buffer_length > 0 /\ m_buffer_length <= m_size_page /\ eeprom' # eeprom)
             => \/ stack[1].fn \in {"write", "stream_write", "stream_write_buf"}
                \/ \E k \in 1..Len(stack) : stack[k].fn = "buffer_flush" /\ FlushCalledFor(k)]_vars
    /\ [](ReadWhileBuffered
             => \A k \in 1..res :
                   data_out[k] = Eeprom(hist.eeprom0, Cell(hist.call.address + k - 1)))

\* the read returned the erased content of the cell whose new byte is still
\* in the buffer
BufferedStaysWitness ==
    /\ ReadWhileBuffered
    /\ hist.faults = 0
    /\ m_buffer_start = 0
    /\ m_buffer_length = 1
    /\ data_out[1] # m_buffer[0]
    /\ eeprom = << >>

\* a buffered_write made at a valid address with the session configured has
\* returned
BufferedWriteReturned ==
    /\ Returned("buffered_write")
    /\ m_i2c_library # "NULL"
    /\ hist.call.address < m_size_total

\* a buffered_write made at a valid address with the session configured is
\* past its checks and has met no failure
BufferedWriteUnderWay ==
    /\ ~Idle
    /\ Outer.fn = "buffered_write"
    /\ Outer.pc # "entry"
    /\ ~BurstFailed

\* what has returned: the effective length, or the error of the first failing
\* flush or direct write, after which no transaction follows and nothing more
\* is buffered
BufferedWriteResult ==
    BufferedWriteReturned
    => /\ ~BurstFailed => res = EffLen(hist.call.address, hist.call.length)
       /\ BurstFailed => /\ res = -EIO
                         /\ hist.txns = hist.nack.txns
                         /\ m_buffer_length = hist.nack.fill

\* C15: buffered_write returns the effective length min(l, 8192 - a) when
\* every input byte was buffered or written (so a call under way that has met
\* no failure is to return that length), and at the first failing flush or
\* direct write it returns that error and takes no further input byte.
BufferedWriteCount ==
    /\ BufferedWriteResult
    /\ BufferedWriteUnderWay
          => ToInt(Outer.length_capped) = EffLen(Outer.address, Outer.length)

\* the direct write of the first of two bytes failed
BufferedWriteResultWitness ==
    /\ BufferedWriteReturned
    /\ platform.page_write_supported
    /\ BurstFailed
    /\ hist.call.length = 2
    /\ hist.call.address % m_size_page = 1
    /\ hist.nack.txns = 1

\* a step of the buffer_flush the sketch called leaves the device memory, the
\* timestamp and the buffer alone and makes no bus transaction, liveness
\* probes included
FlushStepIsNoOp ==
    /\ UNCHANGED <<eeprom, m_timestamp_write, buffer>>
    /\ hist'.txns = 0
    /\ hist'.last_txn = NoTxn

\* buffer_flush on an empty buffer, before setup too, returns 0 and does nothing
EmptyFlushIsNoOp ==
    /\ [][(hist.call.op = "buffer_flush" /\ hist.call.fill0 = 0 /\ ~Idle)
             => FlushStepIsNoOp]_vars
    /\ []((Returned("buffer_flush") /\ hist.call.fill0 = 0) => res = 0)

\* C16: buffer_flush on an empty buffer returns 0 and makes no bus
\* transaction, no liveness probe either, in any state including before setup;
\* of two buffer_flush calls in a row the second is such a no-op, leaving
\* device memory, timestamp and buffer unchanged.
FlushTwiceIsNoOp ==
    /\ EmptyFlushIsNoOp
    /\ [][(hist.call.op = "buffer_flush" /\ hist.prev.op = "buffer_flush" /\ ~Idle)
             => FlushStepIsNoOp]_vars
    /\ []((Returned("buffer_flush") /\ hist.prev.op = "buffer_flush") => res = 0)

\* C17: whenever the fill length is > 0 the buffer start is a multiple of the
\* page size and start + fill <= 8192, so that the pending range lies inside
\* one page of the address space.
PendingRangeInOnePage ==
    m_buffer_length > 0
    => /\ m_buffer_start % m_size_page = 0
       /\ m_buffer_start + m_buffer_length <= m_size_total
       /\ m_buffer_start \div m_size_page
             = (m_buffer_start + m_buffer_length - 1) \div m_size_page

(***************************************************************************)
(* Specification with fairness: the driver runs to completion on the       *)
(* caller's thread and the clock advances                                  *)
(***************************************************************************)
SpecLive == InitLive /\ [][Next]_vars /\ WF_vars(Next) /\ WF_vars(Tick)

\* C18: every call of read, write, buffered_write and buffer_flush returns
\* after finitely many bus transactions, whatever the transport does
\* (acknowledge, failure, fewer bytes accepted or delivered than offered,
\* including none), given that the clock advances.
EveryCallReturns == (~Idle) ~> Idle

\* the driver is in the completion gate of read or write
InGate == stack # <<>> /\ Top.pc = "gate"

\* C19: the completion gate's busy-wait is bounded: the gate is always left;
\* it is left by the step that finds the device acknowledging its probe, and,
\* when the device does not acknowledge, by the step that finds more than the
\* settling threshold elapsed since the last write burst; the write then goes
\* on to its burst and the read to its first chunk or its return.
GateBounded ==
    /\ InGate ~> ~InGate
    /\ [][(InGate /\ device.busy = 0) => ~InGate']_vars
    /\ [][(InGate /\ hist.since_burst > SETTLE_MS) => ~InGate']_vars
    /\ [][(InGate /\ ~InGate')
            => IF Top.fn = "write"
               THEN stack' # <<>> /\ Top'.fn = "write" /\ Top'.pc = "burst"
               ELSE \/ stack' # <<>> /\ Top'.fn = "read" /\ Top'.pc = "chunk"
                    \/ Top.length_capped = 0 /\ hist'.just_returned = "read"]_vars

\* a write has left the gate before its second burst with no probe
\* acknowledged: the device was busy until the threshold had elapsed
GateBoundedWitness ==
    /\ Running("write", "burst")
    /\ Top.i > 0
    /\ hist.last_txn = [kind |-> "probe", hdr |-> 0, n |-> 0, ok |-> FALSE]
    /\ ~hist.probe_acked
    /\ hist.since_burst > SETTLE_MS

\* the request is longer than the memory left after its address
OverLong == Outer.length > m_size_total - Outer.address

\* C20: when address + length exceeds what size_t (16 bits wide on some
\* builds) or the 16-bit address arithmetic can represent, the effective
\* length of read, write and buffered_write is still 8192 - address: the
\* over-long request neither passes the bound check uncapped nor has a
\* transaction that wraps to low addresses.
OverLongIsCapped ==
    (/\ ~Idle
     /\ Outer.fn \in {"read", "write", "buffered_write"}
     /\ Outer.pc # "entry"
     /\ OverLong)
    => /\ Outer.length_capped = m_size_total - Outer.address
       /\ (DataTxn /\ Outer.fn # "buffered_write" /\ hist.txns > 0)
             => hist.last_txn.hdr \in Outer.address..(m_size_total - 1)

\* the call under way or made last has a start address past the end
PastEnd(h) == h.call.op \in {"read", "write", "buffered_write"} /\ h.call.address >= m_size_total

\* C21: read, write and buffered_write called with a start address >= 8192
\* return -EINVAL in their first step, before any bus activity: no
\* transaction and no liveness probe is issued, no function is called (a
\* buffered_write does not flush pending data), and device memory, the
\* last-write timestamp and the coalescing buffer are unchanged.
PastEndRejected ==
    /\ []((PastEnd(hist) /\ hist.just_returned = hist.call.op) => res = -EINVAL)
    /\ [](PastEnd(hist) => hist.txns = 0 /\ hist.last_txn = NoTxn /\ Len(stack) <= 1)
    /\ [][(PastEnd(hist) /\ ~Idle) => Idle']_vars
    /\ [][PastEnd(hist') => UNCHANGED <<m_timestamp_write, buffer, eeprom>>]_vars

\* a buffered_write past the end has returned -EINVAL with the byte buffered
\* before it still pending
PastEndWitness ==
    /\ Returned("buffered_write")
    /\ PastEnd(hist)
    /\ m_i2c_library # "NULL"
    /\ res = -EINVAL
    /\ hist.call.fill0 = 1
    /\ m_buffer_length = 1

\* C22: until a setup call has succeeded, also after rejected setup calls,
\* read, write and buffered_write return -EINVAL, detect returns false, and no
\* bus transaction, liveness probes included, has been issued.
NoSessionNoBus ==
    m_i2c_library = "NULL"
    => /\ hist.just_returned \in {"read", "write", "buffered_write"} => res = -EINVAL
       /\ hist.just_returned = "detect" => res = BoolInt(FALSE)
       /\ hist.txns = 0
       /\ hist.last_txn = NoTxn
       /\ hist.since_burst = -1
       /\ eeprom = << >>

\* after two rejected setup calls and a detect that returned false, read and
\* write have returned -EINVAL and so has buffered_write now
NoSessionWitness ==
    /\ m_i2c_library = "NULL"
    /\ Returned("buffered_write")
    /\ res = -EINVAL
    /\ hist.prev.op = "write"
    /\ hist.prev.res = -EINVAL
    /\ Len(todo) = 3

\* C23 as stated: for all 256 byte values of the bus address, setup rejects
\* with -EINVAL every value whose top 5 bits are not 0b10100 (= 20, the
\* values 0xA0..0xA7).
SetupRejectsNot10100 ==
    (hist.just_returned = "setup" /\ hist.setup \div 8 # 20) => res = -EINVAL

\* C23: for all 256 byte values of the bus address, setup rejects with
\* -EINVAL every value whose top 5 bits are not 0b01010 (= 10, the values
\* 0x50..0x57).
SetupRejectsOtherAddresses ==
    (hist.just_returned = "setup" /\ hist.setup \div 8 # 10) => res = -EINVAL

\* setup has rejected 0x58, which differs from the pattern in bit 3 only
SetupRejectsWitness ==
    /\ hist.just_returned = "setup"
    /\ hist.setup = 88
    /\ res = -EINVAL
    /\ m_i2c_library = "NULL"

\* C24: for all 256 byte values, setup returns 0 and stores the transport
\* handle and the address exactly when the address is in 0x50..0x57; for every
\* other value it returns -EINVAL and leaves the stored handle and bus
\* address as they were before the call.
SetupStoresExactly ==
    [][Next_op = "setup"
         => LET a == Head(todo).address IN
              IF a \in 80..87
              THEN res' = 0 /\ m_i2c_library' = "Wire" /\ m_i2c_address' = a
              ELSE res' = -EINVAL /\ UNCHANGED <<m_i2c_library, m_i2c_address>>]_vars

\* setup has stored 0x57 and a later setup with 0x4F was rejected, leaving
\* 0x57 stored; or a later setup with 0x50 replaced it
SetupStoresWitness ==
    /\ hist.just_returned = "setup"
    /\ todo = <<>>
    /\ m_i2c_library = "Wire"
    /\ \/ hist.setup = 79 /\ res = -EINVAL /\ m_i2c_address = 87
       \/ hist.setup = 80 /\ res = 0 /\ m_i2c_address = 80

\* a read or write of length 0 at a valid address, with the session configured
ZeroLength ==
    /\ hist.call.op \in {"read", "write"}
    /\ hist.call.length = 0
    /\ hist.call.address < m_size_total
    /\ m_i2c_library # "NULL"

\* C25: a read or write with a valid start address and length 0 returns 0
\* at once after validation: no time passes in the completion gate and no
\* bus transaction is issued, not even a liveness probe, also when the call
\* is made within the settling threshold of a previous write.
ZeroLengthIsImmediate ==
    /\ [](ZeroLength => hist.txns = 0 /\ hist.last_txn = NoTxn)
    /\ []((ZeroLength /\ hist.just_returned = hist.call.op) => res = 0)
    /\ [][(ZeroLength /\ ~Idle) => millis' = millis]_vars

\* the stream function fn is about to look at the result of its read or write
StreamAfter(fn) == stack # <<>> /\ Top.fn = fn /\ Top.pc = "after"

\* the count the underlying call reported, none if it returned an error
Reported == IF res < 0 THEN 0 ELSE res

\* C26: the stream operations read(), write(byte) and write(buf, len) advance
\* their cursor by exactly the byte count the underlying read or write
\* reported and leave it where it was when that call returned an error;
\* peek() never moves the read cursor; no cursor moves otherwise, seek apart.
CursorsFollowCount ==
    /\ [][StreamAfter("stream_read") => m_index_read' = m_index_read + Reported]_vars
    /\ [][(StreamAfter("stream_write") \/ StreamAfter("stream_write_buf"))
            => m_index_write' = m_index_write + Reported]_vars
    /\ [][(~Idle /\ Outer.fn = "peek") => m_index_read' = m_index_read]_vars
    /\ [][m_index_read' # m_index_read
            => StreamAfter("stream_read") \/ Next_op = "seek_read"]_vars
    /\ [][m_index_write' # m_index_write
            => \/ StreamAfter("stream_write") \/ StreamAfter("stream_write_buf")
               \/ Next_op = "seek_write"]_vars

\* three bytes written through the stream, the first of them peeked and then
\* read: the read cursor has moved by one byte, the write cursor by three
CursorsFollowWitness ==
    /\ Returned("stream_read")
    /\ hist.prev.op = "peek"
    /\ hist.prev.res = Pat(17, 0)
    /\ res = Pat(17, 0)
    /\ hist.call.address = 0
    /\ m_index_read = 1
    /\ m_index_write = 3

\* C27: stream read() returns the device byte at the read cursor, or -1
\* whenever no byte was obtained (the core read returned an error or
\* transferred no byte, or the cursor is at the end of the address space);
\* it never returns a value that was not read from the device.
StreamReadReturnsDeviceByte ==
    Returned("stream_read")
    => IF data_out # <<>> /\ hist.call.address < m_size_total
       THEN res = Eeprom(eeprom, hist.call.address)
       ELSE res = -1

\* the step is a burst of write
BurstStep == Running("write", "burst") /\ hist'.last_txn.kind \in {"page", "byte"}
                /\ (stack' # stack \/ hist' # hist)

\* C28: every write transaction carries either exactly one data byte or
\* exactly one full page (32 bytes) starting at a page-aligned address; the
\* full-page burst is chosen exactly when the current offset is page-aligned,
\* at least 32 bytes remain and the transport buffer holds at least page
\* size + 2 bytes; so no transaction's data crosses a page boundary.
OneByteOrOnePage ==
    /\ [](hist.last_txn.kind = "byte" => hist.last_txn.n = 1)
    /\ [](hist.last_txn.kind = "page"
            => hist.last_txn.n = m_size_page /\ hist.last_txn.hdr % m_size_page = 0)
    /\ [](hist.last_txn.kind \in {"page", "byte"}
            => (hist.last_txn.hdr % m_size_page) + hist.last_txn.n <= m_size_page)
    /\ [][BurstStep
            => (hist'.last_txn.kind = "page"
                  <=> /\ (Top.address + Top.i) % m_size_page = 0
                      /\ Top.length_capped - Top.i >= m_size_page
                      /\ platform.page_write_supported
                      /\ platform.i2c_buffer_size >= m_size_page + 2)]_vars

\* C29: the last-write timestamp is set to the current time after every
\* write burst whose transaction was acknowledged; a burst that failed leaves
\* it unchanged, and so does every other step: of read, of detect, of a
\* buffered_write that only buffers.
TimestampFollowsBursts ==
    /\ [][(BurstStep /\ hist'.last_txn.ok) => m_timestamp_write' = millis]_vars
    /\ [][(BurstStep /\ ~hist'.last_txn.ok) => m_timestamp_write' = m_timestamp_write]_vars
    /\ [][m_timestamp_write' # m_timestamp_write => BurstStep /\ hist'.last_txn.ok]_vars

\* a read has returned some milliseconds after the last burst of the write
\* before it: the timestamp is still the time of that burst
TimestampWitness ==
    /\ Returned("read")
    /\ hist.prev.op = "write"
    /\ hist.prev.res > 0
    /\ hist.since_burst \in 1..SETTLE_MS
    /\ U32Sub(millis, m_timestamp_write) = [hi |-> 0, lo |-> hist.since_burst]

\* the step is a chunk of read
ChunkStep == Running("read", "chunk") /\ hist'.last_txn.kind = "read" /\ hist' # hist

\* C30: for a read that returns n >= 0, buf[k] is the device byte at
\* address + k for every k < n, however the transport splits the transfer
\* into bursts: each chunk's two-byte header (high byte first) is address +
\* the bytes already read and the chunk delivers no more than the bytes that
\* remain, so that no byte is skipped or read twice.
ReadDeliversDeviceBytes ==
    /\ []((Returned("read") /\ res >= 0)
            => /\ Len(data_out) = res
               /\ \A k \in 1..res :
                    hist.call.address + k - 1 < m_size_total
                    => data_out[k] = Eeprom(eeprom, hist.call.address + k - 1))
    /\ [][ChunkStep
            => /\ hist'.last_txn.hdr = (Top.address + Len(data_out)) % UINT16
               /\ Top.i = Len(data_out)
               /\ hist'.last_txn.n <= Top.length_capped - Top.i
               /\ Len(data_out') = Len(data_out) + hist'.last_txn.n]_vars

\* a read of the 33 bytes written before it has returned all of them,
\* delivered in three chunks of 1, 1 and 31 bytes
ReadDeliversWitness ==
    /\ Returned("read")
    /\ hist.call.address = 0
    /\ res = 33
    /\ hist.txns = 3
    /\ hist.prev.op = "write"
    /\ hist.prev.res = 33
    /\ data_out[1] = Pat(17, 0)
    /\ data_out[33] = Pat(17, 32)

DirectOrStream ==
    /\ ~Idle
    /\ Outer.fn \in {"read", "write", "stream_read", "peek", "stream_write", "stream_write_buf"}

\* C32: direct read and direct write, and the stream operations built on
\* them, never read or modify the coalescing buffer: its start, fill length
\* and contents are unchanged by every step of theirs (seek included), a read
\* or peek returns what device memory holds, not the bytes pending for the
\* same addresses, and a direct write there leaves them pending.
DirectLeavesBuffer ==
    /\ [][(DirectOrStream \/ Next_op \in {"seek_read", "seek_write"})
            => UNCHANGED <<m_buffer, m_buffer_start, m_buffer_length>>]_vars
    /\ []((Returned("read") /\ res > 0)
            => data_out[1] = Eeprom(eeprom, hist.call.address))
    /\ []((Returned("peek") /\ data_out # <<>>)
            => res = Eeprom(eeprom, hist.call.address))

\* with the byte 17 pending for address 0, that address was written directly
\* and through the stream; peek has returned the byte of the stream write and
\* the byte 17 is still pending
DirectLeavesWitness ==
    /\ Returned("peek")
    /\ hist.call.address = 0
    /\ res = Pat(27, 0)
    /\ hist.prev.op = "stream_write"
    /\ hist.prev.res = 1
    /\ m_buffer_length = 1
    /\ m_buffer_start = 0
    /\ m_buffer[0] = Pat(17, 0)

====
